---- MODULE Spec2Model ----
(***************************************************************************)
(* Weather Probability API (backend/main.py): request validation,          *)
(* condition resolution, the lru_cache'd NASA POWER fetch, per-parameter   *)
(* scoring, the synthetic trend and the two export endpoints.              *)
(*                                                                         *)
(* Conventions of the model                                                *)
(*  - a Python str is a sequence of one-character strings;                 *)
(*  - a Python float is a fixed-point integer counting tenths (32 is 3.2), *)
(*    which is exact for every operation the code applies to the values    *)
(*    drawn here;                                                          *)
(*  - a Python/JSON value is a tagged record: [t |-> "null"],              *)
(*    [t |-> "num", v |-> tenths], [t |-> "nan"], [t |-> "str", s |-> _],  *)
(*    [t |-> "list", items |-> _], [t |-> "obj", m |-> function].          *)
(***************************************************************************)
EXTENDS Integers, Sequences, FiniteSets, TLC

(* ------------------------------ bounds --------------------------------- *)

\* Capacity of the fetch cache in the model. The source sets maxsize=256
\* (src/main.py:72); the LRU discipline does not depend on the number, and
\* the model runs it with a small capacity so that eviction is reached.
MaxSize == 2

\* Last calendar year the model's clock reaches; the clock starts one year
\* earlier.
LastYear == 2027

(* ------------------------------- models -------------------------------- *)

\* class WeatherRequest
WeatherRequest(lat, lng, date, threshold, conditions) ==
    [lat |-> lat, lng |-> lng, date |-> date, threshold |-> threshold, conditions |-> conditions]

NoRequest == WeatherRequest(0, 0, <<>>, 0, <<>>)

(* ------------------------------ strings -------------------------------- *)

Digits == <<"0", "1", "2", "3", "4", "5", "6", "7", "8", "9">>

UpperLetters == <<"A", "B", "C", "D", "E", "F", "G", "H", "I", "J", "K", "L", "M",
                  "N", "O", "P", "Q", "R", "S", "T", "U", "V", "W", "X", "Y", "Z">>

LowerLetters == <<"a", "b", "c", "d", "e", "f", "g", "h", "i", "j", "k", "l", "m",
                  "n", "o", "p", "q", "r", "s", "t", "u", "v", "w", "x", "y", "z">>

Punctuation == <<"-", ".", "|", ",", " ", "/">>

\* The characters that occur in the model, in a fixed order (their "code").
Alphabet == Digits \o UpperLetters \o LowerLetters \o Punctuation

IndexOf(seq, c) == CHOOSE i \in 1..Len(seq) : seq[i] = c

Range(seq) == {seq[i] : i \in 1..Len(seq)}

\* ord(c), as the position of c in Alphabet
CharCode == [c \in Range(Alphabet) |-> IndexOf(Alphabet, c)]

IsDigit(c) == c \in Range(Digits)

DigitVal(c) == CharCode[c] - 1

\* str.lower(), one character
LowerTable == [c \in Range(Alphabet) |->
                 IF c \in Range(UpperLetters) THEN LowerLetters[IndexOf(UpperLetters, c)] ELSE c]

LowerChar(c) == LowerTable[c]

\* str.lower()
Lower(s) == [i \in 1..Len(s) |-> LowerChar(s[i])]

\* str(n) for a natural number n
RECURSIVE NatStr(_)
NatStr(n) == IF n < 10 THEN <<Digits[n + 1]>> ELSE NatStr(n \div 10) \o <<Digits[(n % 10) + 1]>>

Abs(x) == IF x < 0 THEN -x ELSE x

\* str(x) for a float x held in tenths: repr gives the shortest round-trip
\* decimal, i.e. the integer part, a point and the one decimal digit.
FloatStr(x) ==
    (IF x < 0 THEN <<"-">> ELSE <<>>) \o NatStr(Abs(x) \div 10) \o <<".">> \o NatStr(Abs(x) % 10)

\* f"{x:.4f}" for a float x held in tenths
Fixed4(x) == FloatStr(x) \o <<"0", "0", "0">>

\* s.replace(old, "") for a one-character old
RECURSIVE Remove(_, _)
Remove(s, c) ==
    IF s = <<>> THEN <<>>
    ELSE (IF Head(s) = c THEN <<>> ELSE <<Head(s)>>) \o Remove(Tail(s), c)

\* s.split(sep) for a one-character sep: always at least one piece
RECURSIVE SplitFrom(_, _, _)
SplitFrom(s, sep, cur) ==
    IF s = <<>> THEN <<cur>>
    ELSE IF Head(s) = sep THEN <<cur>> \o SplitFrom(Tail(s), sep, <<>>)
    ELSE SplitFrom(Tail(s), sep, Append(cur, Head(s)))

Split(s, sep) == SplitFrom(s, sep, <<>>)

\* sep.join(parts)
RECURSIVE Join(_, _)
Join(sep, parts) ==
    IF parts = <<>> THEN <<>>
    ELSE IF Len(parts) = 1 THEN parts[1]
    ELSE parts[1] \o sep \o Join(sep, Tail(parts))

\* int(s) for a non-empty string of digits
RECURSIVE DigitsVal(_)
DigitsVal(s) == IF s = <<>> THEN 0 ELSE DigitsVal(SubSeq(s, 1, Len(s) - 1)) * 10 + DigitVal(s[Len(s)])

AllDigits(s) == \A i \in 1..Len(s) : IsDigit(s[i])

(* --------------------------- Python values ----------------------------- *)

None == [t |-> "null"]
Num(v) == [t |-> "num", v |-> v]
NaN == [t |-> "nan"]
Str(s) == [t |-> "str", s |-> s]
List(items) == [t |-> "list", items |-> items]
Obj(m) == [t |-> "obj", m |-> m]
EmptyDict == Obj(<<>>)

\* bool(x)
Truthy(x) ==
    CASE x.t = "null" -> FALSE
      [] x.t = "num" -> x.v # 0
      [] x.t = "nan" -> TRUE
      [] x.t = "str" -> x.s # <<>>
      [] x.t = "list" -> x.items # <<>>
      [] x.t = "obj" -> DOMAIN x.m # {}

\* str(x) for the values the code formats: a float or a str
PyStr(x) == IF x.t = "num" THEN FloatStr(x.v) ELSE x.s

(* ------------------------------ mappings ------------------------------- *)

T2M == <<"T", "2", "M">>
PRECTOT == <<"P", "R", "E", "C", "T", "O", "T">>
CLDTT == <<"C", "L", "D", "T", "T">>
WS2M == <<"W", "S", "2", "M">>

\* The dict literal, as its (key, value) items in insertion order.
CONDITION_TO_PARAM ==
    << <<(<<"t", "e", "m", "p", "e", "r", "a", "t", "u", "r", "e">>), T2M>>,
       <<(<<"t", "e", "m", "p">>), T2M>>,
       <<(<<"h", "o", "t">>), T2M>>,
       <<(<<"c", "o", "l", "d">>), T2M>>,
       <<(<<"p", "r", "e", "c", "i", "p", "i", "t", "a", "t", "i", "o", "n">>), PRECTOT>>,
       <<(<<"r", "a", "i", "n">>), PRECTOT>>,
       <<(<<"w", "e", "t">>), PRECTOT>>,
       <<(<<"c", "l", "o", "u", "d">>), CLDTT>>,
       <<(<<"c", "l", "o", "u", "d", "s">>), CLDTT>>,
       <<(<<"c", "l", "o", "u", "d", "y">>), CLDTT>>,
       <<(<<"w", "i", "n", "d">>), WS2M>>,
       <<(<<"w", "i", "n", "d", "y">>), WS2M>> >>

\* CONDITION_TO_PARAM.get(key): the parameter code, or None
ConditionGet(key) ==
    IF \E i \in 1..Len(CONDITION_TO_PARAM) : CONDITION_TO_PARAM[i][1] = key
    THEN Str(CONDITION_TO_PARAM[CHOOSE i \in 1..Len(CONDITION_TO_PARAM) :
                                    CONDITION_TO_PARAM[i][1] = key][2])
    ELSE None

\* COLOR_MAP.get(param, "#0b3d91")
COLOR_MAP(param) ==
    CASE param = T2M -> "#FF6B3A"
      [] param = PRECTOT -> "#3B82FF"
      [] param = CLDTT -> "#9CA3FF"
      [] param = WS2M -> "#7CE06A"
      [] OTHER -> "#0b3d91"

ALLOWED_CONDITIONS == [i \in 1..Len(CONDITION_TO_PARAM) |-> CONDITION_TO_PARAM[i][1]]

(* ------------------------------ utilities ------------------------------ *)

\* int(hashlib.md5(s).hexdigest()[:8], 16). MD5 is a library primitive; the
\* code relies on it only as a fixed function of the bytes of s, and the
\* model puts a fixed polynomial digest of the same characters in its place.
RECURSIVE Md5From(_, _, _)
Md5From(s, i, h) ==
    IF i > Len(s) THEN h ELSE Md5From(s, i + 1, (h * 131 + CharCode[s[i]]) % 8388593)

Md5Prefix(s) == Md5From(s, 1, 7)

_seed_number(parts, modulo) ==
    LET s == Join(<<"|">>, [i \in 1..Len(parts) |-> PyStr(parts[i])])
    IN Md5Prefix(s) % modulo

\* build_trend, given the year datetime.utcnow() reports
build_trend(lat, lng, cond_params, current_year) ==
    LET years == [k \in 1..20 |-> NatStr(current_year - (20 - k))]
        values(param) ==
            [k \in 1..20 |-> _seed_number(<<Num(lat), Num(lng), Str(param), Str(years[k])>>, 101)]
    IN [years |-> years,
        conditions |-> [j \in 1..Len(cond_params) |->
                          [name |-> cond_params[j],
                           values |-> values(cond_params[j]),
                           color |-> COLOR_MAP(cond_params[j])]]]

(* ------------------------------ validation ----------------------------- *)

IsLeap(y) == (y % 4 = 0 /\ y % 100 # 0) \/ y % 400 = 0

DaysInMonth(y, m) ==
    IF m = 2 THEN (IF IsLeap(y) THEN 29 ELSE 28)
    ELSE IF m \in {4, 6, 9, 11} THEN 30 ELSE 31

\* %m of strptime: 1[0-2] | 0[1-9] | [1-9]
MatchesMonth(p) == Len(p) \in {1, 2} /\ AllDigits(p) /\ DigitsVal(p) \in 1..12

\* %d of strptime: 3[01] | [12]\d | 0[1-9] | [1-9] | " "[1-9]
MatchesDay(p) ==
    \/ Len(p) \in {1, 2} /\ AllDigits(p) /\ DigitsVal(p) \in 1..31
    \/ Len(p) = 2 /\ p[1] = " " /\ IsDigit(p[2]) /\ DigitVal(p[2]) >= 1

\* %Y of strptime: \d\d\d\d
MatchesYear(p) == Len(p) = 4 /\ AllDigits(p)

\* datetime.datetime.strptime(date, "%Y-%m-%d") returns (TRUE) or raises
\* ValueError (FALSE): the whole string must match the three fields joined
\* by "-", and the fields must name a day that exists (year >= 1).
StrptimeOk(date) ==
    LET p == Split(date, "-") IN
    /\ Len(p) = 3
    /\ MatchesYear(p[1]) /\ MatchesMonth(p[2]) /\ MatchesDay(p[3])
    /\ DigitsVal(p[1]) >= 1
    /\ DigitsVal(Remove(p[3], " ")) <= DaysInMonth(DigitsVal(p[1]), DigitsVal(p[2]))

NoError == [text |-> "", arg |-> <<>>]
Error(text, arg) == [text |-> text, arg |-> arg]

\* validate_request: NoError when it returns, else the ValueError's message
validate_request(req) ==
    LET bad == {i \in 1..Len(req.conditions) :
                    Lower(req.conditions[i]) \notin Range(ALLOWED_CONDITIONS)}
        first == CHOOSE i \in bad : \A j \in bad : i <= j
    IN
    IF ~(-900 <= req.lat /\ req.lat <= 900) THEN Error("Latitude must be -90 to 90", <<>>)
    ELSE IF ~(-1800 <= req.lng /\ req.lng <= 1800) THEN Error("Longitude must be -180 to 180", <<>>)
    ELSE IF ~StrptimeOk(req.date) THEN Error("Date must be YYYY-MM-DD", <<>>)
    ELSE IF ~(0 <= req.threshold /\ req.threshold <= 100) THEN Error("Threshold must be 0-100", <<>>)
    ELSE IF bad # {} THEN Error("Invalid condition: ", req.conditions[first])
    ELSE NoError

(* ------------------------------- numbers ------------------------------- *)

Min(a, b) == IF a <= b THEN a ELSE b
Max(a, b) == IF a >= b THEN a ELSE b

\* round(n / d) for d > 0: Python 3 rounds a half to the even neighbour
RoundHalfEven(n, d) ==
    LET q == n \div d
        r == n - q * d
    IN IF 2 * r < d THEN q
       ELSE IF 2 * r > d THEN q + 1
       ELSE IF q % 2 = 0 THEN q ELSE q + 1

\* int(n / d) for d > 0: truncation towards zero
IntTrunc(n, d) == IF n >= 0 THEN n \div d ELSE -((-n) \div d)

\* float(s) for a str s: a decimal with at most one fractional digit, or
\* "nan" in any letter case; [t |-> "err"] stands for the ValueError
ParseFloat(s) ==
    LET neg == s # <<>> /\ Head(s) = "-"
        body == IF neg THEN Tail(s) ELSE s
        p == Split(body, ".")
        mag == IF Len(p) = 1 THEN DigitsVal(p[1]) * 10
               ELSE DigitsVal(p[1]) * 10 + DigitsVal(p[2])
    IN IF Lower(s) = <<"n", "a", "n">> THEN NaN
       ELSE IF /\ Len(p) \in {1, 2} /\ p[1] # <<>> /\ AllDigits(p[1])
               /\ (Len(p) = 2 => Len(p[2]) = 1 /\ AllDigits(p[2]))
            THEN Num(IF neg THEN -mag ELSE mag)
       ELSE [t |-> "err"]

\* a in b for str a, b
IsSubstring(a, b) ==
    \E i \in 0..(Len(b) - Len(a)) : SubSeq(b, i + 1, i + Len(a)) = a

\* d.get(key, default) for a dict d
DictGet(d, key, default) == IF key \in DOMAIN d.m THEN d.m[key] ELSE default

(* ------------------------------ upstream ------------------------------- *)

\* The ways requests.get / raise_for_status / r.json() raise.
UpstreamErrors == {"ConnectionError", "Timeout", "HTTPError", "JSONDecodeError"}

Failure(kind) == [kind |-> kind]
Body(data) == [kind |-> "json", data |-> data]

\* The try block of fetch_nasa_data on one upstream outcome: the parameter
\* block it returns, {} when anything raises (.get on a non-dict raises
\* AttributeError, which the except clause catches as well).
fetch_nasa_data(outcome) ==
    IF outcome.kind \in UpstreamErrors THEN EmptyDict
    ELSE IF outcome.data.t # "obj" THEN EmptyDict
    ELSE LET props == DictGet(outcome.data, "properties", EmptyDict) IN
         IF props.t # "obj" THEN EmptyDict
         ELSE DictGet(props, "parameter", EmptyDict)

(* ------------------------------- scoring ------------------------------- *)

Raised(exc) == [exc |-> exc]
Returned(v) == [exc |-> "", v |-> v]

\* Lines 120-122: raw_val for one parameter, or the exception raised
RawVal(param_block, param, date) ==
    IF ~Truthy(param_block) THEN Returned(None)
    ELSE CASE param_block.t \in {"num", "nan"} -> Raised("TypeError")
           [] param_block.t = "str" ->
                IF IsSubstring(param, param_block.s) THEN Raised("TypeError") ELSE Returned(None)
           [] param_block.t = "list" ->
                IF Str(param) \in Range(param_block.items) THEN Raised("TypeError") ELSE Returned(None)
           [] param_block.t = "obj" ->
                IF param \notin DOMAIN param_block.m THEN Returned(None)
                ELSE IF param_block.m[param].t # "obj" THEN Raised("AttributeError")
                ELSE Returned(DictGet(param_block.m[param], Remove(date, "-"), None))

\* Lines 123-126: val = float(raw_val), None when raw_val is None or float raises
FloatOrNone(raw_val) ==
    CASE raw_val.t \in {"num", "nan"} -> raw_val
      [] raw_val.t = "str" -> (IF ParseFloat(raw_val.s).t = "err" THEN None ELSE ParseFloat(raw_val.s))
      [] OTHER -> None

\* Line 133 had it rounded like the other three scores
ScoreT2M_Rounded(val) ==
    IF val.t = "nan" THEN 100
    ELSE Max(0, Min(100, RoundHalfEven((val.v - 100) * 3, 10)))

\* Line 133 for a present val
ScoreT2M(val) ==
    IF val.t = "nan" THEN 100
    ELSE IntTrunc(Max(0, Min(1000, (val.v - 100) * 3)), 10)

\* Lines 127-137 had the fallback seeded with date and parameter swapped
ProbScore_SeedOrder(req, param, val) ==
    IF val.t = "null" \/ param \notin {PRECTOT, CLDTT, T2M, WS2M}
    THEN Returned(_seed_number(<<Num(req.lat), Num(req.lng), Str(req.date), Str(param)>>, 101))
    ELSE IF param = T2M THEN Returned(ScoreT2M(val))
    ELSE IF val.t = "nan" THEN Raised("ValueError")
    ELSE IF param = PRECTOT THEN Returned(Min(100, RoundHalfEven(val.v * 20, 10)))
    ELSE IF param = CLDTT THEN Returned(RoundHalfEven(val.v, 10))
    ELSE Returned(Min(100, RoundHalfEven(val.v * 10, 10)))

\* Lines 127-137: prob_score, or the exception int(round(nan)) raises
ProbScore(req, param, val) ==
    IF val.t = "null" \/ param \notin {PRECTOT, CLDTT, T2M, WS2M}
    THEN Returned(_seed_number(<<Num(req.lat), Num(req.lng), Str(param), Str(req.date)>>, 101))
    ELSE IF param = T2M THEN Returned(ScoreT2M(val))
    ELSE IF val.t = "nan" THEN Raised("ValueError")
    ELSE IF param = PRECTOT THEN Returned(Min(100, RoundHalfEven(val.v * 20, 10)))
    ELSE IF param = CLDTT THEN Returned(RoundHalfEven(val.v, 10))
    ELSE Returned(Min(100, RoundHalfEven(val.v * 10, 10)))

\* One iteration of the loop at line 119
ProbabilityEntry(req, param_block, param) ==
    LET raw == RawVal(param_block, param, req.date) IN
    IF raw.exc # "" THEN raw
    ELSE LET val == FloatOrNone(raw.v)
             score == ProbScore(req, param, val)
         IN IF score.exc # "" THEN score
            ELSE Returned([parameter |-> param, condition |-> param, value |-> score.v,
                           raw |-> val, color |-> COLOR_MAP(param)])

\* Lines 108-114 without the test "param not in requested_params"
RECURSIVE ResolveLoop_NoDedupe(_, _)
ResolveLoop_NoDedupe(conditions, requested_params) ==
    IF conditions = <<>> THEN requested_params
    ELSE LET param == ConditionGet(Lower(Head(conditions))) IN
         ResolveLoop_NoDedupe(Tail(conditions),
                              IF Truthy(param) THEN Append(requested_params, param.s)
                              ELSE requested_params)

\* Lines 108-114
RECURSIVE ResolveLoop(_, _)
ResolveLoop(conditions, requested_params) ==
    IF conditions = <<>> THEN requested_params
    ELSE LET param == ConditionGet(Lower(Head(conditions))) IN
         ResolveLoop(Tail(conditions),
                     IF Truthy(param) /\ param.s \notin Range(requested_params)
                     THEN Append(requested_params, param.s)
                     ELSE requested_params)

RequestedParams(req) ==
    LET requested_params == ResolveLoop(req.conditions, <<>>) IN
    IF requested_params = <<>> THEN <<T2M, PRECTOT, CLDTT>> ELSE requested_params

\* Lines 118-154: what api_weather returns from the parameter block on
\* (a dict, kind "ok"), or the exception that leaves it (kind "exception")
Respond(req, param_block, current_year) ==
    LET params == RequestedParams(req)
        entries == [i \in 1..Len(params) |-> ProbabilityEntry(req, param_block, params[i])]
        failed == {i \in 1..Len(params) : entries[i].exc # ""}
    IN IF failed # {}
       THEN [kind |-> "exception", status |-> 500,
             exc |-> entries[CHOOSE i \in failed : \A j \in failed : i <= j].exc]
       ELSE [kind |-> "ok", status |-> 200,
             body |-> [location_name |-> Fixed4(req.lat) \o <<",", " ">> \o Fixed4(req.lng),
                       date |-> req.date,
                       probabilities |-> [i \in 1..Len(params) |-> entries[i].v],
                       trend |-> build_trend(req.lat, req.lng, params, current_year)]]

\* Lines 103-106: JSONResponse(status_code=400, content={"error": str(ve)})
JSONResponse400(error) == [kind |-> "error", status |-> 400, error |-> error]

(* -------------------------------- state -------------------------------- *)

Workers == {"w1", "w2"}

VARIABLES
    cache,        \* fetch_nasa_data's lru_cache: <<key, value>> in use order, least recent first
    year,         \* the year datetime.utcnow() reports
    pc,           \* per worker: "idle", "fetching" (inside requests.get) or "done"
    endpoint,     \* per worker: "weather", "json" or "csv"
    req,          \* per worker: the WeatherRequest api_weather was called with
    param_block,  \* per worker: api_weather's param_block (line 116)
    resp,         \* per worker: what the endpoint returned
    upstream,     \* history, per worker: the upstream request of this call ("none", "error", "json")
    at,           \* history, per worker: the year in which the call returned
    recent        \* history: the keys fetch_nasa_data was called with, each once, latest use last

vars == <<cache, year, pc, endpoint, req, param_block, resp, upstream, at, recent>>

NoResponse == [kind |-> "none", status |-> 0]

\* Line 116 had it passed tuple(sorted(requested_params))
CacheKey_Sorted(r) ==
    LET IsRequested(p) == p \in Range(RequestedParams(r))
    IN <<r.lat, r.lng, r.date, SelectSeq(<<CLDTT, PRECTOT, T2M, WS2M>>, IsRequested)>>

\* The arguments of fetch_nasa_data at line 116, which lru_cache uses as key
CacheKey(r) == <<r.lat, r.lng, r.date, RequestedParams(r)>>

CacheKeys(c) == {c[i][1] : i \in 1..Len(c)}

CacheValue(c, key) == c[CHOOSE i \in 1..Len(c) : c[i][1] = key][2]

\* A cache hit that left the order alone (first in, first out)
CacheTouch_NoReorder(c, key) == c

\* A cache hit: the entry becomes the most recently used one
CacheTouch(c, key) ==
    LET i == CHOOSE j \in 1..Len(c) : c[j][1] = key
    IN SubSeq(c, 1, i - 1) \o SubSeq(c, i + 1, Len(c)) \o <<c[i]>>

\* After the wrapped call returns on a miss: nothing when the key was added
\* meanwhile, else the least recently used entry makes room when full
CacheStore(c, key, value) ==
    IF key \in CacheKeys(c) THEN c
    ELSE IF Len(c) >= MaxSize THEN Append(Tail(c), <<key, value>>)
    ELSE Append(c, <<key, value>>)

\* The history of uses after one more use of key
Used(keys, key) ==
    LET IsOther(k) == k # key IN Append(SelectSeq(keys, IsOther), key)

\* export_json after api_weather returned payload (lines 162-165):
\* json.dumps raises TypeError on a JSONResponse object
ExportJsonOf(payload) ==
    IF payload.kind = "exception" THEN payload
    ELSE IF payload.kind = "error" THEN [kind |-> "exception", status |-> 500, exc |-> "TypeError"]
    ELSE [kind |-> "stream", status |-> 200, media_type |-> "application/json",
          content |-> <<payload.body>>]

\* export_csv after api_weather returned payload (lines 172-180):
\* a JSONResponse object has no attribute get
ExportCsvOf(payload) ==
    IF payload.kind = "exception" THEN payload
    ELSE IF payload.kind = "error" THEN [kind |-> "exception", status |-> 500, exc |-> "AttributeError"]
    ELSE [kind |-> "stream", status |-> 200, media_type |-> "text/csv",
          content |-> <<[parameter |-> "parameter", condition |-> "condition",
                         value |-> "value", raw |-> "raw"]>>
                      \o [i \in 1..Len(payload.body.probabilities) |->
                            [parameter |-> payload.body.probabilities[i].parameter,
                             condition |-> payload.body.probabilities[i].condition,
                             value |-> payload.body.probabilities[i].value,
                             raw |-> payload.body.probabilities[i].raw]]]

\* What the endpoint ep makes of api_weather's result
EndpointResult(ep, payload) ==
    CASE ep = "json" -> ExportJsonOf(payload)
      [] ep = "csv" -> ExportCsvOf(payload)
      [] OTHER -> payload

\* Lines 159-160 and 169-170: the request the export endpoints build
ExportRequest(lat, lng, date, conditions) ==
    LET IsNonEmpty(c) == c # <<>>
    IN WeatherRequest(lat, lng, date, 50, SelectSeq(Split(conditions, ","), IsNonEmpty))

Init ==
    /\ cache = <<>>
    /\ year = LastYear - 1
    /\ pc = [w \in Workers |-> "idle"]
    /\ endpoint = [w \in Workers |-> "weather"]
    /\ req = [w \in Workers |-> NoRequest]
    /\ param_block = [w \in Workers |-> None]
    /\ resp = [w \in Workers |-> NoResponse]
    /\ upstream = [w \in Workers |-> "none"]
    /\ at = [w \in Workers |-> 0]
    /\ recent = <<>>

\* api_weather up to the return of fetch_nasa_data's cache lookup, called
\* by endpoint ep on worker w: the 400 answer, the answer from a cached
\* block, or the start of the upstream request.
Call(w, ep, r) ==
    LET error == validate_request(r)
        key == CacheKey(r)
    IN
    /\ pc[w] \in {"idle", "done"}
    /\ endpoint' = [endpoint EXCEPT ![w] = ep]
    /\ req' = [req EXCEPT ![w] = r]
    /\ upstream' = [upstream EXCEPT ![w] = "none"]
    /\ year' = year
    /\ IF error # NoError
       THEN /\ resp' = [resp EXCEPT ![w] = EndpointResult(ep, JSONResponse400(error))]
            /\ pc' = [pc EXCEPT ![w] = "done"]
            /\ at' = [at EXCEPT ![w] = year]
            /\ param_block' = [param_block EXCEPT ![w] = None]
            /\ UNCHANGED <<cache, recent>>
       ELSE IF key \in CacheKeys(cache)
       THEN /\ cache' = CacheTouch(cache, key)
            /\ recent' = Used(recent, key)
            /\ param_block' = [param_block EXCEPT ![w] = CacheValue(cache, key)]
            /\ resp' = [resp EXCEPT ![w] = EndpointResult(ep, Respond(r, CacheValue(cache, key), year))]
            /\ pc' = [pc EXCEPT ![w] = "done"]
            /\ at' = [at EXCEPT ![w] = year]
       ELSE /\ pc' = [pc EXCEPT ![w] = "fetching"]
            /\ recent' = Used(recent, key)
            /\ param_block' = [param_block EXCEPT ![w] = None]
            /\ resp' = [resp EXCEPT ![w] = NoResponse]
            /\ at' = [at EXCEPT ![w] = 0]
            /\ cache' = cache

\* POST /api/weather
api_weather(w, r) == Call(w, "weather", r)

\* GET /api/export/json
export_json(w, lat, lng, date, conditions) == Call(w, "json", ExportRequest(lat, lng, date, conditions))

\* GET /api/export/csv
export_csv(w, lat, lng, date, conditions) == Call(w, "csv", ExportRequest(lat, lng, date, conditions))

\* The upstream request of worker w ends with outcome: fetch_nasa_data
\* returns, lru_cache stores the result, and api_weather runs to its end.
UpstreamReturns(w, outcome) ==
    LET block == fetch_nasa_data(outcome) IN
    /\ pc[w] = "fetching"
    /\ cache' = CacheStore(cache, CacheKey(req[w]), block)
    /\ param_block' = [param_block EXCEPT ![w] = block]
    /\ upstream' = [upstream EXCEPT ![w] = IF outcome.kind \in UpstreamErrors THEN "error" ELSE "json"]
    /\ resp' = [resp EXCEPT ![w] = EndpointResult(endpoint[w], Respond(req[w], block, year))]
    /\ pc' = [pc EXCEPT ![w] = "done"]
    /\ at' = [at EXCEPT ![w] = year]
    /\ UNCHANGED <<year, endpoint, req, recent>>

\* New Year's Eve passes
NewYear ==
    /\ year < LastYear
    /\ year' = year + 1
    /\ UNCHANGED <<cache, pc, endpoint, req, param_block, resp, upstream, at, recent>>

(* ------------------------------- inputs -------------------------------- *)

Chars_rain == <<"r", "a", "i", "n">>
Chars_RAIN == <<"R", "A", "I", "N">>
Chars_Wet == <<"W", "e", "t">>
Chars_temp == <<"t", "e", "m", "p">>
Chars_Hot == <<"H", "o", "t">>
Chars_wind == <<"w", "i", "n", "d">>
Chars_Windy == <<"W", "i", "n", "d", "y">>
Chars_cloud == <<"c", "l", "o", "u", "d">>
Chars_bogus == <<"b", "o", "g", "u", "s">>

Date_ok == <<"2", "0", "2", "4", "-", "0", "1", "-", "1", "5">>
Date_feb30 == <<"2", "0", "2", "4", "-", "0", "2", "-", "3", "0">>
Date_short == <<"2", "0", "2", "4", "-", "1", "-", "5">>
Date_compact == <<"2", "0", "2", "4", "0", "1", "1", "5">>

\* {"properties": {"parameter": block}}
Payload(block) == Body(Obj("properties" :> Obj("parameter" :> block)))

\* A per-date lookup with the one entry date -> raw
DayEntry(date, raw) == Obj(Remove(date, "-") :> raw)

\* The body that reports raw for every requested parameter on the requested day
Reading(r, raw) == Payload(Obj([p \in Range(RequestedParams(r)) |-> DayEntry(r.date, raw)]))

Failures == {Failure(k) : k \in UpstreamErrors}

(* Concurrent requests: two workers, two keys, the clock. *)

ConcurrentRequests ==
    {WeatherRequest(100, 200, Date_ok, 50, c) : c \in {<<Chars_rain>>, <<Chars_temp, Chars_rain>>}}

Next ==
    \/ \E w \in Workers, r \in ConcurrentRequests : api_weather(w, r)
    \/ \E w \in Workers : \E outcome \in Failures \cup {Reading(req[w], Num(32))} :
          UpstreamReturns(w, outcome)
    \/ NewYear

Spec == Init /\ [][Next]_vars

(* Sequential requests against the cache: one worker, four keys. *)

Sequential == {"w1"}

\* Condition lists that pass validation; they resolve to four parameter tuples
GoodConditions ==
    {<<>>,
     <<Chars_RAIN, Chars_rain, Chars_Wet>>,
     <<Chars_rain>>,
     <<Chars_Windy, Chars_rain>>,
     <<Chars_rain, Chars_Windy, Chars_Wet, Chars_wind>>,
     <<Chars_RAIN, Chars_wind>>}

CacheRequests ==
    {WeatherRequest(100, 200, Date_ok, 50, c) : c \in GoodConditions}
    \cup {WeatherRequest(100, 200, Date_ok, 50, <<Chars_bogus>>)}

NextCache ==
    \/ \E w \in Sequential, r \in CacheRequests : api_weather(w, r)
    \/ \E w \in Sequential : \E outcome \in Failures \cup {Reading(req[w], Num(32))} :
          UpstreamReturns(w, outcome)

SpecCache == Init /\ [][NextCache]_vars

(* Scoring: one worker, one key with all four parameters, many bodies. *)

Conditions_all == <<Chars_temp, Chars_rain, Chars_cloud, Chars_Windy>>

ScoreRequest == WeatherRequest(100, 200, Date_ok, 50, Conditions_all)

ScoreQuery == <<100, 200, Date_ok, Join(<<",">>, Conditions_all)>>

\* Raw values the upstream reports, in tenths: the POWER fill value -999,
\* a negative reading, values inside the scales and values above them
RawNumbers == {-9990, -5, 32, 105, 125, 150, 433, 1005, 2500}

\* Parsed bodies the upstream can answer request r with
Bodies(r) ==
    LET params == RequestedParams(r) IN
    {Reading(r, Num(v)) : v \in RawNumbers}
    \cup {Reading(r, raw) : raw \in {NaN, None, Str(<<"n", "/", "a">>), Str(<<"3", ".", "2">>)}}
    \cup {Payload(Obj([p \in Range(params) |-> DayEntry(Date_feb30, Num(32))])),
          Payload(Obj([p \in Range(params) |-> None])),
          Payload(Obj([p \in Range(params) \ {T2M, WS2M} |-> DayEntry(r.date, Num(32))])),
          Payload(Num(5)), Payload(None),
          Payload(List([i \in 1..Len(params) |-> Str(params[i])])),
          Body(List(<<>>)), Body(Obj("properties" :> None)), Body(Obj("messages" :> List(<<>>)))}

NextScore ==
    \/ \E w \in Sequential : api_weather(w, ScoreRequest)
    \/ \E w \in Sequential : export_json(w, ScoreQuery[1], ScoreQuery[2], ScoreQuery[3], ScoreQuery[4])
    \/ \E w \in Sequential : export_csv(w, ScoreQuery[1], ScoreQuery[2], ScoreQuery[3], ScoreQuery[4])
    \/ \E w \in Sequential : \E outcome \in Failures \cup Bodies(req[w]) : UpstreamReturns(w, outcome)
    \/ NewYear

SpecScore == Init /\ [][NextScore]_vars

(* Validation: one worker, requests and export queries in and out of range. *)

\* Requests with one or several fields out of range
BadRequests ==
    {WeatherRequest(901, 200, Date_ok, 50, <<>>),
     WeatherRequest(100, -1801, Date_ok, 50, <<>>),
     WeatherRequest(100, 200, Date_feb30, 50, <<>>),
     WeatherRequest(100, 200, Date_compact, 50, <<>>),
     WeatherRequest(100, 200, Date_short, 50, <<Chars_rain>>),
     WeatherRequest(100, 200, Date_ok, 101, <<>>),
     WeatherRequest(100, 200, Date_ok, 50, <<Chars_rain, Chars_bogus>>),
     WeatherRequest(-901, 1801, Date_feb30, -1, <<Chars_bogus>>),
     WeatherRequest(900, -1800, Date_feb30, 101, <<Chars_bogus>>),
     WeatherRequest(-900, 1800, Date_ok, 100, <<Chars_bogus, Chars_rain>>)}

BoundaryRequests ==
    {WeatherRequest(900, 1800, Date_ok, 100, <<Chars_Hot>>),
     WeatherRequest(-900, -1800, Date_ok, 0, <<>>)}

\* Query strings of the export endpoints: <<lat, lng, date, conditions>>
ExportQueries ==
    {<<900, 1800, Date_ok, Chars_Hot \o <<",", ",">> >>,
     <<901, 200, Date_ok, <<>> >>,
     <<100, 200, Date_feb30, <<>> >>,
     <<100, 200, Date_ok, Chars_bogus>>}

NextValidate ==
    \/ \E w \in Sequential, r \in BadRequests \cup BoundaryRequests : api_weather(w, r)
    \/ \E w \in Sequential, q \in ExportQueries : export_json(w, q[1], q[2], q[3], q[4])
    \/ \E w \in Sequential, q \in ExportQueries : export_csv(w, q[1], q[2], q[3], q[4])
    \/ \E w \in Sequential : \E outcome \in Failures \cup {Reading(req[w], Num(32))} :
          UpstreamReturns(w, outcome)

SpecValidate == Init /\ [][NextValidate]_vars

(* ------------------------------- claims -------------------------------- *)

\* The entries of a normal api_weather response
Probabilities(w) == resp[w].body.probabilities

\* Worker w holds a normal response of POST /api/weather
Answered(w) == pc[w] = "done" /\ endpoint[w] = "weather" /\ resp[w].kind = "ok"

\* The parameter codes of a list of valid keywords, as the specification
\* states them: the code of each keyword, first occurrences only, in order;
\* the default three for none
ExpectedParams(conditions) ==
    LET codes == [i \in 1..Len(conditions) |-> ConditionGet(Lower(conditions[i])).s]
        IsFirst(i) == \A j \in 1..(i - 1) : codes[j] # codes[i]
        firsts == SelectSeq([i \in 1..Len(conditions) |-> i], IsFirst)
    IN IF conditions = <<>> THEN <<T2M, PRECTOT, CLDTT>>
       ELSE [k \in 1..Len(firsts) |-> codes[firsts[k]]]

\* C1: every entry of probabilities in a normal api_weather response has a
\* value in 0..100, whatever the upstream returned.
C1_ValueInRange ==
    \A w \in Workers : Answered(w) =>
        \A i \in 1..Len(Probabilities(w)) : Probabilities(w)[i].value \in 0..100

\* C2: when the upstream call fails, fetch_nasa_data returns {} and
\* api_weather answers normally with one entry per requested parameter, each
\* with raw = None and value = _seed_number(lat, lng, parameter, date, 101).
C2_UpstreamFailureFallsBack ==
    \A w \in Workers : (pc[w] = "done" /\ upstream[w] = "error") =>
        LET expected == ExpectedParams(req[w].conditions) IN
        /\ param_block[w] = EmptyDict
        /\ resp[w].kind = "ok" /\ resp[w].status = 200
        /\ Len(Probabilities(w)) = Len(expected)
        /\ \A i \in 1..Len(expected) :
              /\ Probabilities(w)[i].parameter = expected[i]
              /\ Probabilities(w)[i].raw = None
              /\ Probabilities(w)[i].value =
                    _seed_number(<<Num(req[w].lat), Num(req[w].lng),
                                   Str(expected[i]), Str(req[w].date)>>, 101)
              /\ Probabilities(w)[i].value \in 0..100

\* C2's case: a call whose upstream request failed has returned, for a
\* request with three parameters.
C2_Witness ==
    \E w \in Workers : pc[w] = "done" /\ upstream[w] = "error" /\ req[w].conditions = <<>>

\* C3: two api_weather calls with the same query that returned in the same
\* calendar year returned equal responses.
C3_IdenticalQueriesIdenticalResponses ==
    \A w1, w2 \in Workers :
        (/\ pc[w1] = "done" /\ pc[w2] = "done"
         /\ endpoint[w1] = "weather" /\ endpoint[w2] = "weather"
         /\ req[w1] = req[w2] /\ at[w1] = at[w2])
        => resp[w1] = resp[w2]

\* A real calendar date written YYYY-MM-DD
IsYMD(date) ==
    /\ Len(date) = 10
    /\ date[5] = "-" /\ date[8] = "-"
    /\ \A i \in {1, 2, 3, 4, 6, 7, 9, 10} : IsDigit(date[i])
    /\ DigitsVal(SubSeq(date, 1, 4)) >= 1
    /\ DigitsVal(SubSeq(date, 6, 7)) \in 1..12
    /\ DigitsVal(SubSeq(date, 9, 10)) \in
          1..DaysInMonth(DigitsVal(SubSeq(date, 1, 4)), DigitsVal(SubSeq(date, 6, 7)))

\* The message of the first of the five checks that request r fails, in the
\* order latitude, longitude, date, threshold, conditions; NoError for none
FirstFailure(r) ==
    LET unknown == {i \in 1..Len(r.conditions) :
                        \A k \in 1..Len(CONDITION_TO_PARAM) :
                            CONDITION_TO_PARAM[k][1] # Lower(r.conditions[i])}
    IN IF r.lat < -900 \/ r.lat > 900 THEN Error("Latitude must be -90 to 90", <<>>)
       ELSE IF r.lng < -1800 \/ r.lng > 1800 THEN Error("Longitude must be -180 to 180", <<>>)
       ELSE IF ~IsYMD(r.date) THEN Error("Date must be YYYY-MM-DD", <<>>)
       ELSE IF r.threshold < 0 \/ r.threshold > 100 THEN Error("Threshold must be 0-100", <<>>)
       ELSE IF unknown # {}
            THEN Error("Invalid condition: ", r.conditions[CHOOSE i \in unknown : \A j \in unknown : i <= j])
       ELSE NoError

\* C4: api_weather answers a request that fails a check with status 400 and
\* the message of the first failing check, without an upstream request, and
\* never rejects a request that passes all five.
C4_ValidationAllOrNothing ==
    \A w \in Workers : (pc[w] # "idle" /\ endpoint[w] = "weather") =>
        IF FirstFailure(req[w]) # NoError
        THEN /\ pc[w] = "done" /\ upstream[w] = "none"
             /\ resp[w] = JSONResponse400(FirstFailure(req[w]))
        ELSE resp[w].kind # "error"

\* C5: every endpoint answers a query that fails validation with a 400 and
\* an error payload that carries a message.
C5_ValidationFailureIs400 ==
    \A w \in Workers : (pc[w] = "done" /\ validate_request(req[w]) # NoError) =>
        /\ resp[w].kind = "error" /\ resp[w].status = 400
        /\ resp[w].error.text # ""

\* C6: the parameters of probabilities and of trend.conditions are the codes
\* of the request's keywords, first occurrences only and in that order, or
\* T2M, PRECTOT, CLDTT for no keyword.
C6_ConditionResolution ==
    \A w \in Workers : Answered(w) =>
        LET expected == ExpectedParams(req[w].conditions) IN
        /\ [i \in 1..Len(Probabilities(w)) |-> Probabilities(w)[i].parameter] = expected
        /\ [i \in 1..Len(resp[w].body.trend.conditions) |-> resp[w].body.trend.conditions[i].name]
              = expected

\* C6's case: RAIN, rain, Wet was answered with the single code PRECTOT.
C6_Witness ==
    \E w \in Workers :
        /\ Answered(w)
        /\ req[w].conditions = <<Chars_RAIN, Chars_rain, Chars_Wet>>
        /\ Len(Probabilities(w)) = 1 /\ Probabilities(w)[1].parameter = PRECTOT

\* C7: api_weather answers every valid request normally, whatever the
\* upstream returned.
C7_UpstreamNeverCrashes ==
    \A w \in Workers :
        (pc[w] = "done" /\ endpoint[w] = "weather" /\ validate_request(req[w]) = NoError)
        => resp[w].kind = "ok"

\* The T2M entries of worker w's normal response whose raw value is a number
T2MEntries(w) ==
    {i \in 1..Len(Probabilities(w)) :
        Probabilities(w)[i].parameter = T2M /\ Probabilities(w)[i].raw.t = "num"}

LastN(seq, n) == SubSeq(seq, Max(1, Len(seq) - n + 1), Len(seq))

CacheKeySeq(c) == [i \in 1..Len(c) |-> c[i][1]]

\* Worker w starts a call in this step
Calls(w) ==
    /\ pc[w] \in {"idle", "done"} /\ pc'[w] # "idle"
    /\ (pc'[w] # pc[w] \/ req'[w] # req[w] \/ resp'[w] # resp[w] \/ cache' # cache)

\* C9: the cache never holds more than MaxSize entries; between calls it
\* holds exactly the MaxSize most recently used distinct keys; a call with
\* one of these keys makes no upstream request and scores from the stored
\* mapping, the empty one included; a stored mapping never changes, and an
\* entry leaves only as the least recently used one of a full cache, for a
\* new entry.
C9_BoundedLRU ==
    [][/\ Len(cache') <= MaxSize
       /\ (\A w \in Workers : pc'[w] # "fetching") => CacheKeySeq(cache') = LastN(recent', MaxSize)
       /\ \A w \in Workers :
             (/\ Calls(w) /\ validate_request(req'[w]) = NoError
              /\ CacheKey(req'[w]) \in Range(LastN(recent, MaxSize)))
             => /\ pc'[w] = "done" /\ upstream'[w] = "none"
                /\ param_block'[w] = CacheValue(cache, CacheKey(req'[w]))
                /\ resp'[w] = Respond(req'[w], CacheValue(cache, CacheKey(req'[w])), year)
       /\ \A k \in CacheKeys(cache) \cap CacheKeys(cache') : CacheValue(cache', k) = CacheValue(cache, k)
       /\ \A k \in CacheKeys(cache) \ CacheKeys(cache') :
             /\ Len(cache) = MaxSize
             /\ k \notin Range(LastN(recent', MaxSize))
             /\ \A other \in CacheKeys(cache) : IndexOf(recent, k) <= IndexOf(recent, other)
             /\ Cardinality(CacheKeys(cache') \ CacheKeys(cache)) = 1
      ]_vars

\* C9's case: a call was answered from a stored empty mapping after another
\* key had been evicted.
C9_Witness ==
    \E w \in Workers :
        /\ pc[w] = "done" /\ upstream[w] = "none" /\ resp[w].kind = "ok"
        /\ param_block[w] = EmptyDict
        /\ Len(cache) = MaxSize /\ Len(recent) > MaxSize

\* Entries of the cache for the same place, day and set of parameter codes as r
SameSet(r) ==
    {k \in CacheKeys(cache) :
        /\ k[1] = r.lat /\ k[2] = r.lng /\ k[3] = r.date
        /\ Range(k[4]) = Range(ExpectedParams(r.conditions))}

\* C10 as stated: a valid request whose codes, as a set, are those of a
\* cached entry for the same place and day makes no upstream request.
C10_SortedKey ==
    \A w \in Workers : (pc[w] = "fetching") => SameSet(req[w]) = {}

\* C10 as amended: the key holds the codes in resolution order. A call is
\* answered from the cache only from the entry with its own tuple, and goes
\* upstream whenever that entry is absent, also while an entry with the same
\* codes in another order is cached.
C10_ResolutionOrderKey ==
    \A w \in Sequential :
        LET own == <<req[w].lat, req[w].lng, req[w].date, ExpectedParams(req[w].conditions)>> IN
        /\ (pc[w] = "fetching") => own \notin CacheKeys(cache)
        /\ (pc[w] = "done" /\ validate_request(req[w]) = NoError) =>
              /\ own \in CacheKeys(cache)
              /\ param_block[w] = CacheValue(cache, own)

\* C10's case: rain,windy is cached and windy,rain is on its way upstream.
C10_Witness ==
    \E w \in Workers :
        /\ pc[w] = "fetching" /\ SameSet(req[w]) # {}
        /\ CacheKey(req[w]) \notin CacheKeys(cache)

====
